---- MODULE Spec2Model ----
(***************************************************************************)
(* Model of dbt_airbnb_dagster_pipeline/definitions.py: the module-level   *)
(* statement                                                               *)
(*                                                                         *)
(*   defs = Definitions(                                                   *)
(*       assets=[dbtlearn_dbt_assets, dbtlearn_partitioned_dbt_assets],    *)
(*       schedules=schedules,                                              *)
(*       resources={"dbt": DbtCliResource(                                 *)
(*                      project_dir=os.fspath(dbt_project_dir))},          *)
(*   )                                                                     *)
(*                                                                         *)
(* executed once when the module is imported.  Python evaluates the        *)
(* arguments left to right and binds `defs` only after the outer call      *)
(* returns; an exception raised by any of the calls leaves `defs` unbound. *)
(* Definitions and DbtCliResource belong to the orchestration framework,   *)
(* which is not part of the repository: the model records the arguments    *)
(* the module hands to them and lets either call return or raise.          *)
(***************************************************************************)
EXTENDS Naturals, Sequences, FiniteSets

VARIABLES
    dbtlearn_dbt_assets,              \* imported from .assets (line 26)
    dbtlearn_partitioned_dbt_assets,  \* imported from .assets (line 26)
    dbt_project_dir,                  \* imported from .constants (line 27)
    schedules,                        \* imported from .schedules (line 28)
    pc,                               \* position in the statement of lines 30-36
    fspath_result,                    \* value of os.fspath(dbt_project_dir)
    dbt_resource,                     \* value of DbtCliResource(...)
    defs                              \* the module global `defs`

vars == <<dbtlearn_dbt_assets, dbtlearn_partitioned_dbt_assets, dbt_project_dir,
          schedules, pc, fspath_result, dbt_resource, defs>>

inputs == <<dbtlearn_dbt_assets, dbtlearn_partitioned_dbt_assets,
            dbt_project_dir, schedules>>

\* ---------------------------------------------------------------- bounds
MaxSchedules == 2

AssetNames == {"A", "B", "C"}

ScheduleNames == {"S1", "S2"}

PathTexts == {"/proj", "/missing"}

\* ------------------------------------------------------- value universes
\* A name that is not bound (yet): Python raises NameError on reading it.
Unbound == [unbound |-> TRUE]

\* An asset definition: an opaque named handle, partitioned or not.
AssetDef(name, partitioned) == [name |-> name, partitioned |-> partitioned]

\* A path-like value: a str, or a pathlib.Path whose string form is `text`.
PathLike(kind, text) == [kind |-> kind, text |-> text]

BoundedSeq(S, n) == UNION {[1..k -> S] : k \in 0..n}

\* ------------------------------------------------------------ operators
\* Variant: the path object is passed on unconverted.
fspath_identity(p) == p

\* os.fspath: a str is returned as it is, any other path-like object is
\* replaced by the str its __fspath__ returns.
fspath(p) == IF p.kind = "str" THEN p ELSE PathLike("str", p.text)

\* Variant: the registration of lines 10-16, without the partitioned assets.
AssetsArg_unpartitioned_only == <<dbtlearn_dbt_assets>>

\* The list display of line 31.
AssetsArg == <<dbtlearn_dbt_assets, dbtlearn_partitioned_dbt_assets>>

\* The dict display of lines 33-35: one key.
ResourcesArg(resource) == [k \in {"dbt"} |-> resource]

\* The keyword arguments handed to DbtCliResource (line 34).
DbtCliResource(project_dir) ==
    [type |-> "DbtCliResource", project_dir |-> project_dir]

\* The keyword arguments handed to Definitions (lines 30-36).
Definitions(assets, scheds, resources) ==
    [assets |-> assets, schedules |-> scheds, resources |-> resources]

\* ----------------------------------------------------------------- Init
Init ==
    /\ dbtlearn_dbt_assets \in {AssetDef(n, FALSE) : n \in AssetNames}
    /\ dbtlearn_partitioned_dbt_assets \in {AssetDef(n, TRUE) : n \in AssetNames}
    /\ dbt_project_dir \in {PathLike(k, t) : k \in {"str", "Path"}, t \in PathTexts}
    /\ schedules \in BoundedSeq(ScheduleNames, MaxSchedules)
    /\ pc = "unconstructed"
    /\ fspath_result = Unbound
    /\ dbt_resource = Unbound
    /\ defs = Unbound

\* -------------------------------------------------------------- actions
\* Variant: the statement is entered again after `defs` has been bound.
EvalFspath_reentered ==
    /\ pc \in {"unconstructed", "constructed"}
    /\ fspath_result' = fspath(dbt_project_dir)
    /\ pc' = "fspath_done"
    /\ UNCHANGED <<inputs, dbt_resource, defs>>

\* Variant: the converted path is stored back into the imported name.
EvalFspath_rebinds_input ==
    /\ pc = "unconstructed"
    /\ fspath_result' = fspath(dbt_project_dir)
    /\ dbt_project_dir' = fspath(dbt_project_dir)
    /\ pc' = "fspath_done"
    /\ UNCHANGED <<dbtlearn_dbt_assets, dbtlearn_partitioned_dbt_assets,
                   schedules, dbt_resource, defs>>

\* os.fspath(dbt_project_dir), the innermost call of line 34.
EvalFspath ==
    /\ pc = "unconstructed"
    /\ fspath_result' = fspath(dbt_project_dir)
    /\ pc' = "fspath_done"
    /\ UNCHANGED <<inputs, dbt_resource, defs>>

\* DbtCliResource(project_dir=...) returns the resource (line 34).
DbtCliResourceReturns ==
    /\ pc = "fspath_done"
    /\ dbt_resource' = DbtCliResource(fspath_result)
    /\ pc' = "resource_built"
    /\ UNCHANGED <<inputs, fspath_result, defs>>

\* DbtCliResource(project_dir=...) raises: the exception propagates out of
\* the module, nothing catches it (there is no try statement in the file).
DbtCliResourceRaises ==
    /\ pc = "fspath_done"
    /\ pc' = "failed"
    /\ UNCHANGED <<inputs, fspath_result, dbt_resource, defs>>

\* Definitions(...) returns and the result is bound to `defs` (line 30).
DefinitionsReturns ==
    /\ pc = "resource_built"
    /\ defs' = Definitions(AssetsArg, schedules, ResourcesArg(dbt_resource))
    /\ pc' = "constructed"
    /\ UNCHANGED <<inputs, fspath_result, dbt_resource>>

\* Variant: `defs` is bound to an object without resources before the
\* failing call.
DefinitionsRaises_partial ==
    /\ pc = "resource_built"
    /\ defs' = Definitions(AssetsArg, schedules, <<>>)
    /\ pc' = "failed"
    /\ UNCHANGED <<inputs, fspath_result, dbt_resource>>

\* Definitions(...) raises: the assignment of line 30 never happens.
DefinitionsRaises ==
    /\ pc = "resource_built"
    /\ pc' = "failed"
    /\ UNCHANGED <<inputs, fspath_result, dbt_resource, defs>>

Next ==
    \/ EvalFspath
    \/ DbtCliResourceReturns
    \/ DbtCliResourceRaises
    \/ DefinitionsReturns
    \/ DefinitionsRaises

Spec == Init /\ [][Next]_vars

\* --------------------------------------------------------------- claims
Range(f) == {f[i] : i \in DOMAIN f}

\* C5: the registration object holds exactly the unpartitioned and the
\* partitioned asset definitions it was given, exactly the schedules of the
\* schedule list and exactly the resource key "dbt", and nothing else.
C5_ExactContent ==
    pc = "constructed" =>
        /\ Range(defs.assets) = {dbtlearn_dbt_assets, dbtlearn_partitioned_dbt_assets}
        /\ Len(defs.assets) = 2
        /\ defs.schedules = schedules
        /\ DOMAIN defs.resources = {"dbt"}

\* C5 scenario: unpartitioned A, partitioned B, schedules S1, resource "dbt".
C5_Witness ==
    /\ pc = "constructed"
    /\ dbtlearn_dbt_assets = AssetDef("A", FALSE)
    /\ dbtlearn_partitioned_dbt_assets = AssetDef("B", TRUE)
    /\ schedules = <<"S1">>
    /\ Range(defs.assets) = {AssetDef("A", FALSE), AssetDef("B", TRUE)}
    /\ Range(defs.schedules) = {"S1"}
    /\ DOMAIN defs.resources = {"dbt"}

\* C7: `defs` is bound by one transition only, the return of Definitions;
\* once it is bound neither it nor the position changes again, and it is
\* bound exactly in the position "constructed".
C7_ConstructedOnce ==
    [][ /\ (pc = "constructed" => pc' = "constructed")
        /\ (defs # Unbound => defs' = defs /\ pc = "constructed")
        /\ (defs = Unbound /\ defs' # Unbound =>
                pc = "resource_built" /\ pc' = "constructed") ]_vars

C7_Witness ==
    /\ pc = "constructed"
    /\ defs = Definitions(AssetsArg, schedules, ResourcesArg(dbt_resource))

\* C8: when a call of the statement raises, the module ends in the failed
\* position with `defs` unbound (no partial object), and the failed position
\* is never left (no retry).
C8_AllOrNothing ==
    /\ [](pc = "failed" => defs = Unbound)
    /\ [][pc = "failed" => pc' = "failed" /\ defs' = Unbound]_vars

\* Definitions raised after the resource had been built.
C8_Witness ==
    /\ pc = "failed"
    /\ dbt_resource # Unbound
    /\ defs = Unbound

\* C9: the resource mapping of `defs` has the single key "dbt", bound to a
\* DbtCliResource whose project_dir is the str with the text of
\* dbt_project_dir.
C9_DbtResource ==
    pc = "constructed" =>
        /\ DOMAIN defs.resources = {"dbt"}
        /\ defs.resources["dbt"].type = "DbtCliResource"
        /\ defs.resources["dbt"].project_dir.kind = "str"
        /\ defs.resources["dbt"].project_dir.text = dbt_project_dir.text

\* dbt_project_dir is a pathlib.Path and the resource holds its str.
C9_Witness ==
    /\ pc = "constructed"
    /\ dbt_project_dir.kind = "Path"
    /\ defs.resources["dbt"].project_dir = PathLike("str", dbt_project_dir.text)

\* C10: no step of the statement changes the imported asset definitions,
\* the schedule list or the project path, whether it ends constructed or
\* failed.
C10_InputsUnchanged ==
    [][ /\ dbtlearn_dbt_assets' = dbtlearn_dbt_assets
        /\ dbtlearn_partitioned_dbt_assets' = dbtlearn_partitioned_dbt_assets
        /\ schedules' = schedules
        /\ dbt_project_dir' = dbt_project_dir ]_vars

\* The statement has run to its end on a pathlib.Path, which was converted.
C10_Witness ==
    /\ pc \in {"constructed", "failed"}
    /\ dbt_project_dir.kind = "Path"
    /\ fspath_result = PathLike("str", dbt_project_dir.text)
====
